---- MODULE Spec2Model ----
(***************************************************************************)
(* Model of app.py: a Flask backend that counts visits, accepts an .xlsx   *)
(* upload of (Date, Level) rows, forecasts 30 further levels with a        *)
(* pre-trained model by sliding a 100-value window, and asks a hosted LLM  *)
(* for an analysis or an answer.                                           *)
(*                                                                         *)
(* Each request is handled by a worker thread.  Handlers that touch shared *)
(* state (the visitor counter, the upload folder) are cut at every access  *)
(* to that state; the purely local handlers are single actions.            *)
(***************************************************************************)
EXTENDS Integers, Sequences, FiniteSets, TLC

VARIABLES
    model,          \* the loaded forecasting model: None or the kind of model
    gemini_model,   \* TRUE when the LLM client was configured at start-up
    visitor_count,  \* the global visit counter
    folder,         \* the upload folder: secured file name -> file content
    pc,             \* per thread: position in the handler it is running
    req,            \* per thread: the request being handled
    loc,            \* per thread: the handler's local variables
    mock,           \* per thread: what the request did to its collaborators
    resp,           \* per thread: the responses produced for the request
    index_done      \* number of completed requests to '/'

vars == <<model, gemini_model, visitor_count, folder, pc, req, loc, mock, resp,
          index_done>>

----------------------------------------------------------------------------
(* Bounds of the model *)

NThreads == 2       \* worker threads of the server
MaxVisits == 3      \* requests to '/' in one run
MaxExtra == 2       \* rows of a sheet besides its well-formed filler rows
MaxOver == 0        \* filler rows beyond time_step
TicksPerDay == 2    \* resolution of a timestamp within its day
PredictBase == 1000 \* predictions start here, above every observed Level

(* Program constants *)

time_step == 100
n_future == 30

None == "None"
Threads == 1..NThreads

----------------------------------------------------------------------------
(* Sequence helpers *)

Max(a, b) == IF a >= b THEN a ELSE b

Range(s) == {s[i] : i \in 1..Len(s)}

LastN(s, n) == SubSeq(s, Max(1, Len(s) - n + 1), Len(s))

Zeros(n) == [i \in 1..n |-> 0]

----------------------------------------------------------------------------
(* File names: sequences of one-character strings *)

Lower(c) ==
    CASE c = "X" -> "x"
      [] c = "L" -> "l"
      [] c = "S" -> "s"
      [] c = "D" -> "d"
      [] OTHER -> c

LowerStr(s) == [i \in 1..Len(s) |-> Lower(s[i])]

ALLOWED_EXTENSIONS == {<<"x", "l", "s", "x">>}

\* filename.rsplit('.', 1)[1]: the text after the last '.'
RSplitLast(filename) ==
    LET dots == {i \in 1..Len(filename) : filename[i] = "."}
        last == CHOOSE i \in dots : \A j \in dots : j <= i
    IN  SubSeq(filename, last + 1, Len(filename))

\* variant: the extension is compared without lower-casing it
AllowedFileNoLower(filename) ==
    /\ "." \in Range(filename)
    /\ RSplitLast(filename) \in ALLOWED_EXTENSIONS

allowed_file(filename) ==
    /\ "." \in Range(filename)
    /\ LowerStr(RSplitLast(filename)) \in ALLOWED_EXTENSIONS

RECURSIVE JoinWords(_, _, _)
\* "_".join(s.split()): runs of blanks become one "_", none at either end.
\* started: a word has been emitted; gap: blanks were seen since that word.
JoinWords(s, started, gap) ==
    IF s = << >> THEN << >>
    ELSE IF Head(s) = " " THEN JoinWords(Tail(s), started, started)
    ELSE (IF gap THEN <<"_">> ELSE << >>) \o <<Head(s)>> \o
         JoinWords(Tail(s), TRUE, FALSE)

RECURSIVE StripLeft(_)
StripLeft(s) ==
    IF s # << >> /\ Head(s) \in {".", "_"} THEN StripLeft(Tail(s)) ELSE s

RECURSIVE StripRight(_)
StripRight(s) ==
    IF s # << >> /\ s[Len(s)] \in {".", "_"}
    THEN StripRight(SubSeq(s, 1, Len(s) - 1)) ELSE s

\* werkzeug's secure_filename on the model's alphabet
secure_filename(filename) ==
    LET spaced == [i \in 1..Len(filename) |->
                      IF filename[i] = "/" THEN " " ELSE filename[i]]
    IN  StripRight(StripLeft(JoinWords(spaced, FALSE, FALSE)))

----------------------------------------------------------------------------
(* Spreadsheet cells.  A Date cell is a timestamp in ticks, an empty cell  *)
(* (NaT after pd.to_datetime) or text no date can be parsed from; a Level  *)
(* cell is a non-negative number or something pd.to_numeric coerces to NaN.*)

NaT == -1
Unparsable == -2
NaN == -1

Row(d, l) == [Date |-> d, Level |-> l]

\* df['Level'].values
Levels(df) == [i \in 1..Len(df) |-> df[i].Level]

\* pd.to_datetime(df['Date']) raises on text that is no date
to_datetime_raises(rows) == \E i \in 1..Len(rows) : rows[i].Date = Unparsable

\* df.dropna(subset=['Date', 'Level']) after both conversions
dropna(rows) ==
    LET keep(r) == r.Date # NaT /\ r.Level # NaN IN SelectSeq(rows, keep)

\* the place of row i in a stable sort by Date
StableRank(rows, i) ==
    Cardinality({j \in 1..Len(rows) : rows[j].Date < rows[i].Date})
    + Cardinality({j \in 1..i : rows[j].Date = rows[i].Date})

Ranks(rows) == [i \in 1..Len(rows) |-> StableRank(rows, i)]

\* the rows put at the places rank gives them
Arrange(rows, rank) ==
    [p \in 1..Len(rows) |-> rows[CHOOSE i \in 1..Len(rows) : rank[i] = p]]

\* the places of the Date-sorted s whose Date occurs more than once
TiedPlaces(s) ==
    {p \in 1..Len(s) : \/ p > 1 /\ s[p - 1].Date = s[p].Date
                       \/ p < Len(s) /\ s[p + 1].Date = s[p].Date}

\* the orders of s that differ from it only among rows of equal Date
Shuffles(s, tied) ==
    LET perms == {f \in [tied -> tied] :
                     /\ \A p, q \in tied : f[p] = f[q] => p = q
                     /\ \A p \in tied : s[f[p]].Date = s[p].Date}
    IN  {[p \in 1..Len(s) |-> IF p \in tied THEN s[f[p]] ELSE s[p]] : f \in perms}

\* df.sort_values('Date'): the default sort is not stable, so rows of equal
\* Date may come out in any order
SortOutcomes(rows) ==
    UNION {Shuffles(s, TiedPlaces(s)) :
             s \in {Arrange(rows, rank) : rank \in {Ranks(rows)}}}

\* variant: the rows are left in sheet order
NoSort(rows) == {rows}

sort_values(rows) == SortOutcomes(rows)

\* variant: the zeros are appended instead of prepended
PadBehind(data, ts) ==
    LET padded == IF Len(data) < ts THEN data \o Zeros(ts - Len(data)) ELSE data
    IN  LastN(padded, ts)

preprocess_data_for_prediction(data, ts) ==
    LET padded == IF Len(data) < ts THEN Zeros(ts - Len(data)) \o data ELSE data
    IN  LastN(padded, ts)

\* strftime('%Y-%m-%d'): the calendar day of a timestamp
strftime(d) == d \div TicksPerDay

Timedelta(days) == days * TicksPerDay

\* pd.date_range(start, periods).strftime('%Y-%m-%d')
date_range(start, periods) ==
    [i \in 1..periods |-> strftime(start + Timedelta(i - 1))]

----------------------------------------------------------------------------
(* The forecasting model is a black box loaded once at start-up.  It is a  *)
(* function of its input window; the kinds below stand for models that     *)
(* read the newest value, the oldest and the newest, or reject the input.  *)

ModelKinds == {"newest", "ends", "rejects"}

predict_raises(m) == m = "rejects"

predict(m, window) ==
    IF m = "newest"
    THEN PredictBase + ((window[Len(window)] + 1) % 7)
    ELSE PredictBase + ((window[1] + 2 * window[Len(window)]) % 5)

\* variant: the newest value is dropped instead of the oldest
SlideDropNewest(window, prediction) ==
    SubSeq(window, 1, Len(window) - 1) \o <<prediction>>

\* np.append(current_input[:, 1:, :], new_input_step, axis=1)
Slide(window, prediction) == Tail(window) \o <<prediction>>

----------------------------------------------------------------------------
(* Requests the clients send *)

Str_d_xlsx == <<"d", ".", "x", "l", "s", "x">>

FileNames ==
    { << >>,
      Str_d_xlsx,
      <<"d", ".", "X", "L", "S", "X">>,
      <<"d", ".", "x", "l", "s">>,
      <<"x", "l", "s", "x">>,
      <<"d", ".", "x", "l", "s", "x", ".", "d">>,
      <<"d", ".", "d", ".", "x", "l", "s", "x">>,
      <<".", ".", "/", "d", ".", "x", "l", "s", "x">>,
      <<"d", " ", " ", "d", ".", "X", "l", "s", "x">>,
      <<"d", "_", "d", ".", "X", "l", "s", "x">> }

BothColumns == {"Date", "Level"}

Sheet(cols, rows) == [corrupt |-> FALSE, cols |-> cols, rows |-> rows]

\* a file pd.read_excel cannot read
Corrupt == [corrupt |-> TRUE, cols |-> {}, rows |-> << >>]

EarlyDate == 5 * TicksPerDay + 1
TieDate == 11 * TicksPerDay
LateDate == 500 * TicksPerDay + 1

\* m well-formed rows, one per day from day 11 on, each at midnight
Filler(m) == [i \in 1..m |-> Row((10 + i) * TicksPerDay, 100 + i)]

\* rows that are late, that tie with the filler's first row, and that miss
\* a Date, miss a Level or hold no Date at all
ExtraRows ==
    { Row(LateDate, 0), Row(TieDate, 7), Row(NaT, 7), Row(LateDate, NaN),
      Row(Unparsable, 7) }

Extras == UNION {[1..k -> ExtraRows] : k \in 0..MaxExtra}

\* with up to MaxExtra further rows: far fewer rows than time_step, just
\* fewer, exactly as many, and more
FillLens == {0, time_step - 1, time_step + MaxOver}

\* the extra rows go around the filler, so the sheet is not in Date order
SheetRows ==
    { (IF e = << >> THEN << >> ELSE <<Head(e)>>) \o Filler(m) \o
      (IF e = << >> THEN << >> ELSE Tail(e)) : e \in Extras, m \in FillLens }

Contents ==
    {Corrupt, Sheet({"Date"}, << >>), Sheet({"Level", "Note"}, << >>)}
    \cup {Sheet(BothColumns, rows) : rows \in SheetRows}
    \cup {Sheet(BothColumns \cup {"Note"}, Filler(1))}

SmallContents ==
    { Sheet(BothColumns, Filler(1)),
      Sheet(BothColumns, <<Row(EarlyDate, 7)>>),
      Sheet({"Date"}, << >>) }

UploadReq(has_file, filename, content) ==
    [kind |-> "upload", has_file |-> has_file, filename |-> filename,
     content |-> content]

NoFilePart == UploadReq(FALSE, << >>, Corrupt)

\* every file name with one sheet, and one good file name with every content
Uploads ==
    {NoFilePart}
    \cup {UploadReq(TRUE, f, Sheet(BothColumns, Filler(1))) : f \in FileNames}
    \cup {UploadReq(TRUE, Str_d_xlsx, c) : c \in Contents}

\* uploads whose secured file names collide, with contents that differ
SmallUploads ==
    {NoFilePart}
    \cup {UploadReq(TRUE, f, c) :
            f \in {Str_d_xlsx, <<".", ".", "/", "d", ".", "x", "l", "s", "x">>},
            c \in SmallContents}

----------------------------------------------------------------------------
(* Per-thread state *)

NoReq == [kind |-> "none"]

NoLoc ==
    [filepath |-> << >>, df |-> << >>, input_data |-> << >>,
     current_input |-> << >>, forecast |-> << >>, tmp |-> 0]

NoMock ==
    [saved |-> FALSE, read |-> << >>, model_calls |-> 0, last_input |-> << >>,
     llm_calls |-> 0]

NoData == [dates |-> << >>, levels |-> << >>]

Response(status, error) ==
    [status |-> status, error |-> error, original_data |-> NoData,
     forecast_data |-> NoData, text |-> "", visitor_count |-> 0]

ErrModel == "LSTM model is not loaded on the server."
ErrNoPart == "No file part"
ErrNoName == "No selected file"
ErrType == "Invalid file type. Please upload a .xlsx file."
ErrColumns == "The .xlsx file must contain 'Date' and 'Level' columns."
ErrProcessing == "An error occurred while processing the file"
ErrUnhandled == "Internal Server Error"

Init ==
    /\ model \in {None} \cup ModelKinds
    /\ gemini_model \in BOOLEAN
    /\ visitor_count = 0
    /\ folder = << >>
    /\ pc = [t \in Threads |-> "idle"]
    /\ req = [t \in Threads |-> NoReq]
    /\ loc = [t \in Threads |-> NoLoc]
    /\ mock = [t \in Threads |-> NoMock]
    /\ resp = [t \in Threads |-> << >>]
    /\ index_done = 0

Goto(t, label) == pc' = [pc EXCEPT ![t] = label]

Reply(t, r) == resp' = [resp EXCEPT ![t] = Append(@, r)]

\* an exception caught by the handler's except clause
Raise(t) == Reply(t, Response(500, ErrProcessing))

Exists(path) == path \in DOMAIN folder

Put(path, content) ==
    [q \in DOMAIN folder \cup {path} |-> IF q = path THEN content ELSE folder[q]]

Remove(path) == [q \in DOMAIN folder \ {path} |-> folder[q]]

----------------------------------------------------------------------------
(* POST /api/upload *)

\* the validation of upload_and_forecast, up to the branch on allowed_file
UploadStart(t, r) ==
    /\ pc[t] = "idle"
    /\ req' = [req EXCEPT ![t] = r]
    /\ IF model = None
       THEN Reply(t, Response(500, ErrModel)) /\ Goto(t, "done")
       ELSE IF ~r.has_file
       THEN Reply(t, Response(400, ErrNoPart)) /\ Goto(t, "done")
       ELSE IF r.filename = << >>
       THEN Reply(t, Response(400, ErrNoName)) /\ Goto(t, "done")
       ELSE IF allowed_file(r.filename)
       THEN resp' = resp /\ Goto(t, "save")
       ELSE Reply(t, Response(400, ErrType)) /\ Goto(t, "done")
    /\ UNCHANGED <<model, gemini_model, visitor_count, folder, loc, mock,
                   index_done>>

\* secure_filename, os.path.join, file.save
UploadSave(t) ==
    /\ pc[t] = "save"
    /\ LET filepath == secure_filename(req[t].filename)
       IN  /\ loc' = [loc EXCEPT ![t].filepath = filepath]
           /\ folder' = Put(filepath, req[t].content)
    /\ mock' = [mock EXCEPT ![t].saved = TRUE]
    /\ Goto(t, "read")
    /\ UNCHANGED <<model, gemini_model, visitor_count, req, resp, index_done>>

HasColumns(c) == "Date" \in c.cols /\ "Level" \in c.cols

\* pd.read_excel and the check of the columns
UploadRead(t) ==
    /\ pc[t] = "read"
    /\ IF ~Exists(loc[t].filepath)
       THEN Raise(t) /\ Goto(t, "exists") /\ UNCHANGED <<loc, mock>>
       ELSE LET c == folder[loc[t].filepath]
            IN  /\ mock' = [mock EXCEPT ![t].read = <<c>>]
                /\ IF c.corrupt
                   THEN Raise(t) /\ Goto(t, "exists") /\ loc' = loc
                   ELSE IF ~HasColumns(c)
                   THEN /\ Reply(t, Response(400, ErrColumns))
                        /\ Goto(t, "exists")
                        /\ loc' = loc
                   ELSE /\ loc' = [loc EXCEPT ![t].df = c.rows]
                        /\ Goto(t, "parse")
                        /\ resp' = resp
    /\ UNCHANGED <<model, gemini_model, visitor_count, folder, req, index_done>>

\* to_datetime, to_numeric, dropna, sort_values, preprocess, the loop's set-up
UploadParse(t) ==
    /\ pc[t] = "parse"
    /\ IF to_datetime_raises(loc[t].df)
       THEN Raise(t) /\ Goto(t, "exists") /\ loc' = loc
       ELSE \E cleaned \in {dropna(loc[t].df)} :
            \E sorted \in sort_values(cleaned) :
              LET input_data ==
                      preprocess_data_for_prediction(Levels(sorted), time_step)
              IN  /\ loc' = [loc EXCEPT ![t].df = sorted,
                                        ![t].input_data = input_data,
                                        ![t].current_input = input_data,
                                        ![t].forecast = << >>]
                  /\ Goto(t, "predict")
                  /\ resp' = resp
    /\ UNCHANGED <<model, gemini_model, visitor_count, folder, req, mock,
                   index_done>>

\* for _ in range(n_future) has run out
LoopDone(forecast) == Len(forecast) >= n_future

\* one iteration of the forecasting loop
UploadPredict(t) ==
    /\ pc[t] = "predict"
    /\ ~LoopDone(loc[t].forecast)
    /\ IF predict_raises(model)
       THEN Raise(t) /\ Goto(t, "exists") /\ UNCHANGED <<loc, mock>>
       ELSE LET prediction == predict(model, loc[t].current_input)
            IN  /\ mock' = [mock EXCEPT
                               ![t].model_calls = @ + 1,
                               ![t].last_input = loc[t].current_input]
                /\ loc' = [loc EXCEPT
                              ![t].forecast = Append(@, prediction),
                              ![t].current_input = Slide(@, prediction)]
                /\ UNCHANGED <<pc, resp>>
    /\ UNCHANGED <<model, gemini_model, visitor_count, folder, req, index_done>>

\* variant: no IndexError on an empty frame
LastDateOrZero(df) == IF df = << >> THEN <<0>> ELSE <<df[Len(df)].Date>>

\* df['Date'].iloc[-1]: the empty sequence when it raises IndexError
LastDate(df) == IF df = << >> THEN << >> ELSE <<df[Len(df)].Date>>

\* variant: the forecast starts on the last observed day
FirstDayIsLastDay(last_date) == last_date

\* last_date + pd.Timedelta(days=1)
ForecastStart(last_date) == last_date + Timedelta(1)

\* [float(f) for f in forecast]
ForecastLevels(forecast) == forecast

\* df['Date'].dt.strftime('%Y-%m-%d').tolist() and df['Level'].tolist()
OriginalData(df) ==
    [dates |-> [i \in 1..Len(df) |-> strftime(df[i].Date)], levels |-> Levels(df)]

\* the response data, after the loop
UploadRespond(t) ==
    /\ pc[t] = "predict"
    /\ LoopDone(loc[t].forecast)
    /\ LET last_date == LastDate(loc[t].df)
       IN  IF last_date = << >>
           THEN Raise(t)
           ELSE Reply(t, [Response(200, "") EXCEPT
                    !.original_data = OriginalData(loc[t].df),
                    !.forecast_data =
                        [dates |-> date_range(ForecastStart(last_date[1]), n_future),
                         levels |-> ForecastLevels(loc[t].forecast)]])
    /\ Goto(t, "exists")
    /\ UNCHANGED <<model, gemini_model, visitor_count, folder, req, loc, mock,
                   index_done>>

\* variant: the finally clause removes nothing
CleanupSkipped(path) == FALSE

\* finally: os.path.exists(filepath)
CleanupNeeded(path) == Exists(path)

UploadExists(t) ==
    /\ pc[t] = "exists"
    /\ IF CleanupNeeded(loc[t].filepath) THEN Goto(t, "remove") ELSE Goto(t, "done")
    /\ UNCHANGED <<model, gemini_model, visitor_count, folder, req, loc, mock,
                   resp, index_done>>

\* finally: os.remove(filepath); when the file is gone by now it raises, and
\* the exception replaces the response the handler was about to return
UploadRemove(t) ==
    /\ pc[t] = "remove"
    /\ IF Exists(loc[t].filepath)
       THEN folder' = Remove(loc[t].filepath) /\ resp' = resp
       ELSE /\ folder' = folder
            /\ resp' = [resp EXCEPT ![t] = <<Response(500, ErrUnhandled)>>]
    /\ Goto(t, "done")
    /\ UNCHANGED <<model, gemini_model, visitor_count, req, loc, mock, index_done>>

\* the framework sends the response and the thread is free again
Return(t) ==
    /\ pc[t] = "done"
    /\ index_done' = IF req[t].kind = "index" THEN index_done + 1 ELSE index_done
    /\ pc' = [pc EXCEPT ![t] = "idle"]
    /\ req' = [req EXCEPT ![t] = NoReq]
    /\ loc' = [loc EXCEPT ![t] = NoLoc]
    /\ mock' = [mock EXCEPT ![t] = NoMock]
    /\ resp' = [resp EXCEPT ![t] = << >>]
    /\ UNCHANGED <<model, gemini_model, visitor_count, folder>>

----------------------------------------------------------------------------
(* GET / and GET /api/stats *)

IndexRunning == Cardinality({u \in Threads : req[u].kind = "index"})

\* visitor_count += 1, first half: the read of the global
IndexLoad(t) ==
    /\ pc[t] = "idle"
    /\ index_done + IndexRunning < MaxVisits
    /\ req' = [req EXCEPT ![t] = [kind |-> "index"]]
    /\ loc' = [loc EXCEPT ![t].tmp = visitor_count]
    /\ Goto(t, "store")
    /\ UNCHANGED <<model, gemini_model, visitor_count, folder, mock, resp,
                   index_done>>

\* visitor_count += 1, second half: the write; then render_template
IndexStore(t) ==
    /\ pc[t] = "store"
    /\ visitor_count' = loc[t].tmp + 1
    /\ Reply(t, [Response(200, "") EXCEPT !.text = "index.html"])
    /\ Goto(t, "done")
    /\ UNCHANGED <<model, gemini_model, folder, req, loc, mock, index_done>>

\* the request notes how many index requests had completed, and how many
\* were running, when it was handled
get_stats(t) ==
    /\ pc[t] = "idle"
    /\ req' = [req EXCEPT ![t] = [kind |-> "stats", completed |-> index_done,
                                  running |-> IndexRunning]]
    /\ Reply(t, [Response(200, "") EXCEPT !.visitor_count = visitor_count])
    /\ Goto(t, "done")
    /\ UNCHANGED <<model, gemini_model, visitor_count, folder, loc, mock,
                   index_done>>

----------------------------------------------------------------------------
(* POST /api/analyze and POST /api/chat *)

\* request.json: null, or an object, an array or a string; names are the keys
\* of the object, the elements of the array, the substrings of the string.
\* frame_ok: pd.DataFrame(...).describe() accepts the two values
Bodies ==
    [kind : {"null"}, names : {{}}, frame_ok : {FALSE}]
    \cup [kind : {"object", "array", "string"},
          names : {{}, {"other"}, {"original_data"}, {"question"},
                   {"original_data", "forecast_data"},
                   {"question", "full_data_context", "other"}},
          frame_ok : BOOLEAN]

LLMTexts == {"text a", "text b"}

\* gemini_model.generate_content(prompt) and response.text: a text, or raise
LLMOutcomes == LLMTexts \cup {"raise"}

ErrGemini == "Gemini AI model not configured on the server."
ErrMissingData == "Missing data for analysis."
ErrMissingChat == "Missing question or data context for chat."
ErrAnalysis == "Failed to get analysis from AI model."
ErrAnswer == "Failed to get answer from AI model."

\* not data
Falsy(body) == body.kind = "null" \/ body.names = {}

\* data[key] raises TypeError unless data is an object
SubscriptRaises(body) == body.kind # "object"

\* the call of the LLM inside try, with the handler's except clause
AskLLM(t, outcome, generic) ==
    /\ mock' = [mock EXCEPT ![t].llm_calls = @ + 1]
    /\ IF outcome = "raise"
       THEN Reply(t, Response(500, generic))
       ELSE Reply(t, [Response(200, "") EXCEPT !.text = outcome])

analyze_data(t, body, outcome) ==
    /\ pc[t] = "idle"
    /\ req' = [req EXCEPT ![t] =
                  [kind |-> "analyze", body |-> body, outcome |-> outcome]]
    /\ IF ~gemini_model
       THEN Reply(t, Response(500, ErrGemini)) /\ mock' = mock
       ELSE IF \/ Falsy(body)
               \/ "original_data" \notin body.names
               \/ "forecast_data" \notin body.names
       THEN Reply(t, Response(400, ErrMissingData)) /\ mock' = mock
       ELSE IF SubscriptRaises(body) \/ ~body.frame_ok
       THEN Reply(t, Response(500, ErrAnalysis)) /\ mock' = mock
       ELSE AskLLM(t, outcome, ErrAnalysis)
    /\ Goto(t, "done")
    /\ UNCHANGED <<model, gemini_model, visitor_count, folder, loc, index_done>>

chat_with_data(t, body, outcome) ==
    /\ pc[t] = "idle"
    /\ req' = [req EXCEPT ![t] =
                  [kind |-> "chat", body |-> body, outcome |-> outcome]]
    /\ IF ~gemini_model
       THEN Reply(t, Response(500, ErrGemini)) /\ mock' = mock
       ELSE IF \/ Falsy(body)
               \/ "question" \notin body.names
               \/ "full_data_context" \notin body.names
       THEN Reply(t, Response(400, ErrMissingChat)) /\ mock' = mock
       ELSE IF SubscriptRaises(body)
       THEN \* data['question'] is outside try: the framework answers
            Reply(t, Response(500, ErrUnhandled)) /\ mock' = mock
       ELSE AskLLM(t, outcome, ErrAnswer)
    /\ Goto(t, "done")
    /\ UNCHANGED <<model, gemini_model, visitor_count, folder, loc, index_done>>

----------------------------------------------------------------------------
(* Specifications *)

\* The server handling one request at a time, on worker 1
Next ==
    \/ \E r \in Uploads : UploadStart(1, r)
    \/ UploadSave(1)
    \/ UploadRead(1)
    \/ UploadParse(1)
    \/ UploadPredict(1)
    \/ UploadRespond(1)
    \/ UploadExists(1)
    \/ UploadRemove(1)
    \/ IndexLoad(1)
    \/ IndexStore(1)
    \/ get_stats(1)
    \/ \E b \in Bodies, o \in LLMOutcomes : analyze_data(1, b, o)
    \/ \E b \in Bodies, o \in LLMOutcomes : chat_with_data(1, b, o)
    \/ Return(1)

Spec == Init /\ [][Next]_vars

\* Uploads handled by several threads at once
NextUploads ==
    \E t \in Threads :
        \/ \E r \in SmallUploads : UploadStart(t, r)
        \/ UploadSave(t)
        \/ UploadRead(t)
        \/ UploadParse(t)
        \/ UploadPredict(t)
        \/ UploadRespond(t)
        \/ UploadExists(t)
        \/ UploadRemove(t)
        \/ Return(t)

SpecUploads == Init /\ [][NextUploads]_vars

\* Visits and reads of the counter handled by several threads at once
NextVisits ==
    \E t \in Threads :
        \/ IndexLoad(t)
        \/ IndexStore(t)
        \/ get_stats(t)
        \/ Return(t)

SpecVisits == Init /\ [][NextVisits]_vars

----------------------------------------------------------------------------
(* Claims *)

IsUpload(t) == req[t].kind = "upload"

Answered(t) == resp[t] # << >>

Status(t) == resp[t][1].status

ValidRow(r) == r.Date \notin {NaT, Unparsable} /\ r.Level # NaN

ValidIndexes(rows) == {i \in 1..Len(rows) : ValidRow(rows[i])}

\* C1: the forecasting loop calls the model once per iteration on the current
\* window, 30 times in all; after k iterations the window still has 100
\* values: the last 100-k of the initial window, then predictions 1..k in
\* order, and that window is the model's k+1-th input.
C1_SlidingWindow ==
    \A t \in Threads :
        /\ (IsUpload(t) /\ pc[t] = "predict") =>
             \A f \in {loc[t].forecast}, w0 \in {loc[t].input_data} :
             \A k \in {Len(f)} :
                 /\ k <= 30
                 /\ mock[t].model_calls = k
                 /\ Len(loc[t].current_input) = 100
                 /\ loc[t].current_input = SubSeq(w0, k + 1, 100) \o f
                 /\ k >= 1 =>
                      /\ mock[t].last_input =
                             SubSeq(w0, k, 100) \o SubSeq(f, 1, k - 1)
                      /\ f[k] = predict(model, mock[t].last_input)
        /\ (IsUpload(t) /\ Answered(t) /\ Status(t) = 200) =>
             mock[t].model_calls = 30 /\ Len(loc[t].forecast) = 30

C1_Witness ==
    \E t \in Threads :
        /\ IsUpload(t) /\ pc[t] = "predict"
        /\ Len(loc[t].forecast) = 30
        /\ Len(loc[t].df) > 100
        /\ loc[t].current_input[70] # loc[t].current_input[71]

\* C2 as stated: the window of the first forecasting step is the last 100
\* observed Level values, and holds nothing but observed values.
C2_Original ==
    \A t \in Threads :
        (IsUpload(t) /\ mock[t].model_calls = 1) =>
            \A levels \in {Levels(loc[t].df)}, w \in {mock[t].last_input} :
            \A n \in {Len(levels)} :
            \A i \in 1..100 :
                /\ n - 100 + i >= 1
                /\ w[i] = levels[n - 100 + i]

\* C2 as amended: the window of the first forecasting step holds the Level
\* values of the cleaned rows in Date order, the last 100 of them when there
\* are that many; with n < 100 cleaned rows it is 100-n zeros and then all n.
C2_InitialWindow ==
    \A t \in Threads :
        (IsUpload(t) /\ mock[t].model_calls = 1) =>
            \A df \in {loc[t].df}, w \in {mock[t].last_input} :
            \A n \in {Len(df)} :
                /\ Len(w) = 100
                /\ \A i \in 1..n : ValidRow(df[i])
                /\ \A i \in 1..(n - 1) : df[i].Date <= df[i + 1].Date
                /\ n = Cardinality(ValidIndexes(req[t].content.rows))
                /\ \A i \in 1..100 :
                       w[i] = IF n - 100 + i >= 1 THEN df[n - 100 + i].Level ELSE 0

C2_Witness ==
    \E t \in Threads :
        /\ IsUpload(t) /\ mock[t].model_calls = 1
        /\ Len(loc[t].df) = 1
        /\ Len(req[t].content.rows) = 2
        /\ mock[t].last_input[99] = 0
        /\ mock[t].last_input[100] = 7

\* C3: the visitor_count GET /api/stats reports equals the number of
\* completed requests to '/', also when threads handle them concurrently
\* (compared when no request to '/' is running as the counter is read).
C3_NoLostVisit ==
    \A t \in Threads :
        (req[t].kind = "stats" /\ pc[t] = "done" /\ req[t].running = 0) =>
            resp[t][1].visitor_count = req[t].completed

ExtIsXlsx(f) ==
    \E i \in 1..Len(f) :
        /\ f[i] = "."
        /\ \A j \in (i + 1)..Len(f) : f[j] # "."
        /\ Len(f) = i + 4
        /\ f[i + 1] \in {"x", "X"}
        /\ f[i + 2] \in {"l", "L"}
        /\ f[i + 3] \in {"s", "S"}
        /\ f[i + 4] \in {"x", "X"}

Rejected(t, status, error) ==
    /\ pc[t] = "done"
    /\ resp[t] = <<Response(status, error)>>
    /\ ~mock[t].saved
    /\ mock[t].model_calls = 0
    /\ folder = << >>

\* C4: upload validation rejects in a fixed order and before any side effect:
\* model not loaded 500, no 'file' part 400, empty file name 400, a file name
\* whose text after the last '.' is not 'xlsx' in any case 400; a rejected
\* upload saves no file and never invokes the model, and a file is saved only
\* when all four checks pass.
C4_ValidationOrder ==
    \A t \in Threads :
        IsUpload(t) =>
            LET r == req[t] IN
            /\ model = None => Rejected(t, 500, ErrModel)
            /\ (model # None /\ ~r.has_file) => Rejected(t, 400, ErrNoPart)
            /\ (model # None /\ r.has_file /\ r.filename = << >>) =>
                   Rejected(t, 400, ErrNoName)
            /\ (model # None /\ r.has_file /\ r.filename # << >>
                  /\ ~ExtIsXlsx(r.filename)) => Rejected(t, 400, ErrType)
            /\ (model # None /\ r.has_file /\ r.filename # << >>
                  /\ ExtIsXlsx(r.filename)) =>
                   /\ pc[t] = "save" => ~mock[t].saved /\ resp[t] = << >>
                   /\ pc[t] # "save" => mock[t].saved
            /\ (mock[t].saved \/ mock[t].model_calls > 0) =>
                   /\ model # None /\ r.has_file /\ r.filename # << >>
                   /\ ExtIsXlsx(r.filename)

C4_Witness ==
    \E t \in Threads :
        /\ IsUpload(t) /\ pc[t] = "done"
        /\ req[t].filename = <<"d", ".", "x", "l", "s", "x", ".", "d">>
        /\ resp[t] = <<Response(400, ErrType)>>

CarriesKeys(body, keys) == body.kind = "object" /\ keys \subseteq body.names

RequiredKeys(kind) ==
    IF kind = "analyze" THEN {"original_data", "forecast_data"}
    ELSE {"question", "full_data_context"}

\* C5: analyze and chat call the LLM at most once, and only when it is
\* configured and the body carries both required keys; an unconfigured LLM
\* gives 500, a missing key gives 400, an exception while building the prompt
\* or calling the LLM gives 500, and a success carries exactly the LLM's text.
C5_LLMHandlers ==
    \A t \in Threads :
        (req[t].kind \in {"analyze", "chat"} /\ pc[t] = "done") =>
            LET ok == CarriesKeys(req[t].body, RequiredKeys(req[t].kind)) IN
            /\ Len(resp[t]) = 1
            /\ mock[t].llm_calls <= 1
            /\ mock[t].llm_calls = 1 => gemini_model /\ ok
            /\ ~gemini_model => Status(t) = 500
            /\ (gemini_model /\ ~ok) => Status(t) = 400
            /\ (gemini_model /\ ok) => Status(t) \in {200, 500}
            /\ Status(t) = 200 =>
                   mock[t].llm_calls = 1 /\ resp[t][1].text = req[t].outcome

\* C6: once an upload's file has been saved, it is no longer in the upload
\* folder when the response is returned, whatever the outcome (200, 400, 500).
C6_FileRemoved ==
    \A t \in Threads :
        (IsUpload(t) /\ pc[t] = "done" /\ mock[t].saved) =>
            /\ folder = << >>
            /\ Len(resp[t]) = 1
            /\ Status(t) \in {200, 400, 500}

C6_Witness ==
    \E t \in Threads :
        /\ IsUpload(t) /\ pc[t] = "done" /\ mock[t].saved
        /\ resp[t] = <<Response(400, ErrColumns)>>

\* C7: preprocess_data_for_prediction returns exactly 100 values: the last
\* 100 Level values in order when there are n >= 100, and otherwise 100-n
\* zeros in front followed by all n Level values in their order.
C7_Preprocess ==
    \A t \in Threads :
        (IsUpload(t) /\ loc[t].input_data # << >>) =>
            \A levels \in {Levels(loc[t].df)}, w \in {loc[t].input_data} :
            \A n \in {Len(levels)} :
                /\ Len(w) = 100
                /\ n >= 100 => w = SubSeq(levels, n - 99, n)
                /\ n < 100 =>
                     /\ \A i \in 1..(100 - n) : w[i] = 0
                     /\ SubSeq(w, 101 - n, 100) = levels

C7_Witness ==
    \E t \in Threads :
        /\ IsUpload(t) /\ loc[t].input_data # << >>
        /\ Len(loc[t].df) = 2
        /\ loc[t].df[1].Level # loc[t].df[2].Level

DayOf(row) == row.Date \div TicksPerDay

\* C8: a successful upload answers with 30 forecast levels, the model's
\* predictions in order, and 30 forecast dates, the consecutive days after
\* the latest observed Date; original_data holds one date and one level per
\* cleaned row, in non-decreasing Date order, and no predicted value.
C8_ResponseShape ==
    \A t \in Threads :
        (IsUpload(t) /\ pc[t] = "done" /\ Status(t) = 200) =>
            \A r \in {resp[t][1]}, rows \in {req[t].content.rows} :
            \A valid \in {ValidIndexes(rows)}, od \in {r.original_data} :
            \A latest \in {i \in valid : \A j \in valid : rows[j].Date <= rows[i].Date} :
                /\ Len(r.forecast_data.levels) = 30
                /\ Len(r.forecast_data.dates) = 30
                /\ r.forecast_data.levels = loc[t].forecast
                /\ mock[t].model_calls = 30
                /\ \A i \in 1..30 :
                       r.forecast_data.dates[i] = DayOf(rows[latest]) + i
                /\ Len(od.dates) = Cardinality(valid)
                /\ Len(od.levels) = Cardinality(valid)
                /\ \A i \in 1..(Len(od.dates) - 1) : od.dates[i] <= od.dates[i + 1]
                /\ \A i \in valid :
                       Cardinality({j \in 1..Len(od.dates) :
                                      /\ od.dates[j] = DayOf(rows[i])
                                      /\ od.levels[j] = rows[i].Level})
                       = Cardinality({j \in valid :
                                      /\ DayOf(rows[j]) = DayOf(rows[i])
                                      /\ rows[j].Level = rows[i].Level})
                /\ Range(od.levels) \cap Range(loc[t].forecast) = {}

C8_Witness ==
    \E t \in Threads :
        /\ IsUpload(t) /\ pc[t] = "done" /\ Status(t) = 200
        /\ Len(resp[t][1].original_data.dates) < Len(req[t].content.rows)
        /\ Len(resp[t][1].original_data.dates) > 100
        /\ resp[t][1].forecast_data.levels[1] # resp[t][1].forecast_data.levels[2]

\* C9: concurrent uploads with equal secured file names do not interfere:
\* from its save until its read a request's file is present with the content
\* the request saved, and the request reads that content.
C9_NoInterference ==
    \A t \in Threads :
        IsUpload(t) =>
            /\ pc[t] = "read" =>
                 /\ Exists(loc[t].filepath)
                 /\ folder[loc[t].filepath] = req[t].content
            /\ mock[t].read # << >> => mock[t].read[1] = req[t].content

\* C10: an upload ends with exactly one response; a success implies that a
\* valid row survived cleaning; a file with both columns and no valid row
\* ends in a 500 without forecast data, and its saved file is removed.
C10_NoValidRows ==
    \A t \in Threads :
        IsUpload(t) =>
            LET c == req[t].content IN
            /\ Len(resp[t]) <= 1
            /\ pc[t] = "done" => Len(resp[t]) = 1
            /\ (Answered(t) /\ Status(t) = 200) => ValidIndexes(c.rows) # {}
            /\ (pc[t] = "done" /\ mock[t].saved /\ ~c.corrupt
                  /\ BothColumns \subseteq c.cols /\ ValidIndexes(c.rows) = {}) =>
                   /\ Status(t) = 500
                   /\ resp[t][1].forecast_data = NoData
                   /\ folder = << >>

C10_Witness ==
    \E t \in Threads :
        /\ IsUpload(t) /\ pc[t] = "done" /\ mock[t].saved
        /\ req[t].content.rows = <<Row(NaT, 7), Row(LateDate, NaN)>>
        /\ mock[t].model_calls = 30
        /\ Status(t) = 500

====
